---- MODULE Spec2Model ----
(***************************************************************************)
(* Model of convert_images_to_pdfs (src/image_to_PDF.py): page-size        *)
(* resolution, the directory loop, the per-image conversion steps with     *)
(* their catch-all exception handler, and the layout arithmetic.           *)
(*                                                                         *)
(* Strings are sequences of one-character strings so that lower(),         *)
(* endswith() and os.path.splitext() are computed, not assumed.            *)
(* Numbers are exact: a quantity is (n/d) * k^e, where k = 2.83464567 is   *)
(* the mm-to-point factor of lines 62-63.  The factor is carried as the    *)
(* exponent e because 210 * 283464567 does not fit a 32-bit integer.       *)
(* Floating-point rounding of the Python floats is not modelled.           *)
(***************************************************************************)
EXTENDS Integers, Sequences, FiniteSets, TLC

VARIABLES
    pc,             \* position in convert_images_to_pdfs
    page_size,      \* the page_size argument
    page,           \* <<>> or <<page_width, page_height>> (lines 30, 32)
    error,          \* exception that left the function, or "none"
    output_exists,  \* os.path.exists(output_folder)
    made_dirs,      \* os.makedirs(output_folder) has been called
    dir,            \* the entries os.listdir(input_folder) returns, in order
    listed,         \* os.listdir has been called
    idx,            \* index in dir of the current filename (0 before the loop)
    img,            \* <<>> or <<img.width, img.height>> of the open image
    layout,         \* <<>> or <<the record computed by lines 59-77>>
    temp_exists,    \* <output_folder>/temp.jpg exists
    written,        \* PDF files written by pdf.output, in order
    messages        \* lines printed, in order

vars == <<pc, page_size, page, error, output_exists, made_dirs, dir, listed, idx, img,
          layout, temp_exists, written, messages>>

-----------------------------------------------------------------------------
(* Bounds *)

MaxFiles == 2
MaxArity == 3
MaxDim == 3

-----------------------------------------------------------------------------
(* Strings *)

UpperSeq == <<"A","B","C","D","E","F","G","H","I","J","K","L","M",
              "N","O","P","Q","R","S","T","U","V","W","X","Y","Z">>
LowerSeq == <<"a","b","c","d","e","f","g","h","i","j","k","l","m",
              "n","o","p","q","r","s","t","u","v","w","x","y","z">>

\* the lowercase letter of every uppercase letter
LowerMap ==
    [c \in {UpperSeq[i] : i \in 1..Len(UpperSeq)} |->
        LowerSeq[CHOOSE i \in 1..Len(UpperSeq) : UpperSeq[i] = c]]

LowerChar(c) == IF c \in DOMAIN LowerMap THEN LowerMap[c] ELSE c

\* str.lower()
Lower(s) == [i \in 1..Len(s) |-> LowerChar(s[i])]

\* str.endswith(suffix) for one suffix
EndsWith(s, suf) ==
    /\ Len(suf) <= Len(s)
    /\ SubSeq(s, Len(s) - Len(suf) + 1, Len(s)) = suf

\* index of the last "." in p, 0 when there is none (str.rfind)
RFindDot(p) ==
    IF \E i \in 1..Len(p) : p[i] = "."
    THEN CHOOSE i \in 1..Len(p) :
            /\ p[i] = "."
            /\ \A j \in (i+1)..Len(p) : p[j] # "."
    ELSE 0

\* os.path.splitext(p) for a name without directory separators: the
\* extension starts at the last dot, unless only dots precede that dot.
SplitExt(p) ==
    LET dotIndex == RFindDot(p) IN
    IF dotIndex > 0 /\ \E k \in 1..(dotIndex - 1) : p[k] # "."
    THEN <<SubSeq(p, 1, dotIndex - 1), SubSeq(p, dotIndex, Len(p))>>
    ELSE <<p, <<>> >>

\* os.path.join(folder, name)
JoinPath(folder, name) == folder \o <<"/">> \o name

supported_formats ==
    << <<".","j","p","g">>, <<".","j","p","e","g">>, <<".","p","n","g">>,
       <<".","b","m","p">>, <<".","t","i","f","f">>, <<".","g","i","f">> >>

FormatSet == {supported_formats[i] : i \in 1..Len(supported_formats)}

\* the mutant of IsSupported that compares without lowercasing
IsSupportedCaseSensitive(filename) ==
    \E i \in 1..Len(supported_formats) :
        EndsWith(filename, supported_formats[i])

\* filename.lower().endswith(supported_formats)
IsSupported(filename) ==
    \E i \in 1..Len(supported_formats) :
        EndsWith(Lower(filename), supported_formats[i])

\* the mutant of PdfName that keeps the extension in the name
PdfNameKeepExt(filename) == filename \o <<".","p","d","f">>

\* os.path.splitext(filename)[0] + '.pdf'
PdfName(filename) == SplitExt(filename)[1] \o <<".","p","d","f">>

output_folder == <<"o","u","t">>

OutputPath(filename) == JoinPath(output_folder, PdfName(filename))

temp_path == JoinPath(output_folder, <<"t","e","m","p",".","j","p","g">>)

-----------------------------------------------------------------------------
(* Exact arithmetic: [n, d, e] is (n/d) * k^e with d > 0, k the factor below *)

PtPerMmNum == 283464567
PtPerMmDen == 100000000

Abs(x) == IF x < 0 THEN 0 - x ELSE x

RECURSIVE GCD(_, _)
GCD(a, b) == IF b = 0 THEN a ELSE GCD(b, a % b)

Norm(n, d, e) ==
    LET g == GCD(Abs(n), Abs(d))
        s == IF d < 0 THEN 0 - 1 ELSE 1
    IN  [n |-> (s * n) \div g, d |-> (s * d) \div g, e |-> IF n = 0 THEN 0 ELSE e]

Num(i) == [n |-> i, d |-> 1, e |-> 0]

\* the literal 2.83464567
Factor == [n |-> 1, d |-> 1, e |-> 1]

QMul(a, b) ==
    LET g1 == GCD(Abs(a.n), b.d)
        g2 == GCD(Abs(b.n), a.d)
    IN  Norm((a.n \div g1) * (b.n \div g2), (a.d \div g2) * (b.d \div g1), a.e + b.e)

\* a / b for b # 0
QDiv(a, b) == QMul(a, Norm(b.d, b.n, 0 - b.e))

\* a - b for quantities of the same power of k (or zero)
QSub(a, b) ==
    LET g == GCD(a.d, b.d)
        e == IF a.n = 0 THEN b.e ELSE a.e
    IN  Norm(a.n * (b.d \div g) - b.n * (a.d \div g), (a.d \div g) * b.d, e)

QAdd(a, b) == QSub(a, [b EXCEPT !.n = 0 - b.n])

\* the sign of k^e: k is positive, so it is 1
FactorSign(e) == IF PtPerMmNum > 0 /\ PtPerMmDen > 0 THEN 1 ELSE IF e % 2 = 0 THEN 1 ELSE 0 - 1

\* a > b for quantities of the same power of k (or zero)
QGt(a, b) ==
    LET diff == QSub(a, b) IN diff.n * FactorSign(diff.e) > 0

QGe(a, b) == ~ QGt(b, a)

QIsZero(a) == a.n = 0

-----------------------------------------------------------------------------
(* Page-size resolution, lines 20-34 *)

Str(s) == [kind |-> "str", name |-> s, dims |-> <<>>]
Tup(t) == [kind |-> "seq", name |-> <<>>, dims |-> t]

\* the dict of lines 20-26: keys as written in the source
page_sizes ==
    << [key |-> <<"A","3">>, size |-> <<297, 420>>],
       [key |-> <<"A","4">>, size |-> <<210, 297>>],
       [key |-> <<"A","5">>, size |-> <<148, 210>>],
       [key |-> <<"l","e","t","t","e","r">>, size |-> <<216, 279>>],
       [key |-> <<"l","e","g","a","l">>, size |-> <<216, 356>>] >>

\* key in page_sizes
InPageSizes(key) == \E i \in 1..Len(page_sizes) : page_sizes[i].key = key

\* page_sizes[key]
PageSizesGet(key) ==
    page_sizes[CHOOSE i \in 1..Len(page_sizes) : page_sizes[i].key = key].size

\* lines 29-34: <<>> stands for the raise of line 34
ResolvePageSizeOf(ps) ==
    IF ps.kind = "str" /\ InPageSizes(Lower(ps.name))
    THEN PageSizesGet(Lower(ps.name))
    ELSE IF ps.kind = "seq" /\ Len(ps.dims) = 2
         THEN ps.dims
         ELSE <<>>

-----------------------------------------------------------------------------
(* Layout, lines 59-77 *)

\* the mutant of HeightBound with the comparison reversed
HeightBoundReversed(pageRatio, imgRatio) == QGt(imgRatio, pageRatio)

\* the mutant of HeightBound with a non-strict comparison
HeightBoundNonStrict(pageRatio, imgRatio) == QGe(pageRatio, imgRatio)

\* line 66: (pdf_page_width / pdf_page_height) > img_ratio
HeightBound(pageRatio, imgRatio) == QGt(pageRatio, imgRatio)

\* lines 59-77 for page_height # 0 and img.height # 0
Layout(page_width, page_height, width, height) ==
    LET img_ratio == QDiv(Num(width), Num(height))
        pdf_page_width == QMul(Num(page_width), Factor)
        pdf_page_height == QMul(Num(page_height), Factor)
        byHeight == HeightBound(QDiv(pdf_page_width, pdf_page_height), img_ratio)
        img_width == IF byHeight THEN QMul(pdf_page_height, img_ratio)
                                 ELSE pdf_page_width
        img_height == IF byHeight THEN pdf_page_height
                                  ELSE QDiv(pdf_page_width, img_ratio)
    IN  [ basis |-> IF byHeight THEN "height" ELSE "width",
          pdf_page_width |-> pdf_page_width,
          pdf_page_height |-> pdf_page_height,
          img_width |-> img_width,
          img_height |-> img_height,
          x_pos |-> QDiv(QSub(pdf_page_width, img_width), Num(2)),
          y_pos |-> QDiv(QSub(pdf_page_height, img_height), Num(2)) ]

-----------------------------------------------------------------------------
(* Inputs *)

photo_TXT == <<"p","h","o","t","o",".","T","X","T">>
photo_JPG == <<"p","h","o","t","o",".","J","P","G">>
a_png == <<"a",".","p","n","g">>
a_jpg == <<"a",".","j","p","g">>
dot_jpg == <<".","j","p","g">>

Names == {photo_TXT, photo_JPG, a_png, a_jpg, dot_jpg}

\* directory listings: distinct names in any order
Listings ==
    UNION { { s \in [1..n -> Names] : \A i, j \in 1..n : i # j => s[i] # s[j] }
            : n \in 0..MaxFiles }

letter == <<"l","e","t","t","e","r">>

\* page_size arguments of the whole-run specification
RunPageSizes ==
    { Str(letter), Str(<<"A","4">>), Str(<<"B","5">>),
      Tup(<<>>), Tup(<<210>>), Tup(<<210, 297, 1>>),
      Tup(<<210, 297>>), Tup(<<297, 0>>), Tup(<<297, 0 - 210>>) }

\* pixel sizes an opened image can report in the whole-run specification
RunImages == { <<1000, 2000>>, <<4000, 1000>> }

PresetSpellings ==
    { <<"A","3">>, <<"a","3">>, <<"A","4">>, <<"a","4">>, <<"A","5">>, <<"a","5">>,
      letter, <<"L","e","t","t","e","r">>, <<"L","E","T","T","E","R">>,
      <<"l","e","g","a","l">>, <<"L","e","g","a","l">>, <<"L","E","G","A","L">> }

OtherStrings == { <<"B","5">>, <<>>, <<"A","4"," ">> }

TupleValues == {0 - 1, 0, 1, 210, 297}

\* page_size arguments of the resolver specification
ResolveInputs ==
    { Str(s) : s \in PresetSpellings \cup OtherStrings }
    \cup { Tup(t) : t \in UNION { [1..n -> TupleValues] : n \in 0..MaxArity } }

\* page and pixel dimensions of the layout specification
LayoutPageDims == (0..MaxDim) \cup {0 - 1, 100, 210, 297}
LayoutImageDims == (1..MaxDim) \cup {1000, 2000, 4000}

-----------------------------------------------------------------------------
(* State machine *)

SuccessMsg(filename) ==
    [ok |-> TRUE, filename |-> filename, pdf_name |-> PdfName(filename), reason |-> "none"]

FailureMsg(filename, reason) ==
    [ok |-> FALSE, filename |-> filename, pdf_name |-> <<>>, reason |-> reason]

Init ==
    /\ pc = "resolve"
    /\ page_size \in RunPageSizes
    /\ page = <<>>
    /\ error = "none"
    /\ output_exists \in BOOLEAN
    /\ made_dirs = FALSE
    /\ dir \in Listings
    /\ listed = FALSE
    /\ idx = 0
    /\ img = <<>>
    /\ layout = <<>>
    /\ temp_exists = FALSE
    /\ written = <<>>
    /\ messages = <<>>

\* lines 29-34
ResolvePageSize ==
    /\ pc = "resolve"
    /\ LET r == ResolvePageSizeOf(page_size) IN
         IF r = <<>>
         THEN /\ pc' = "aborted"
              /\ error' = "ValueError"
              /\ page' = page
         ELSE /\ pc' = "mkdir"
              /\ error' = error
              /\ page' = r
    /\ UNCHANGED <<page_size, output_exists, made_dirs, dir, listed, idx, img, layout,
                   temp_exists, written, messages>>

\* lines 37-38: the directory is there, or os.makedirs creates it
EnsureOutputDir ==
    /\ pc = "mkdir"
    /\ pc' = "listdir"
    /\ output_exists' = TRUE
    /\ made_dirs' = ~ output_exists
    /\ UNCHANGED <<page_size, page, error, dir, listed, idx, img, layout,
                   temp_exists, written, messages>>

\* line 38: os.makedirs raises
MakedirsFails ==
    /\ pc = "mkdir"
    /\ ~ output_exists
    /\ made_dirs' = TRUE
    /\ pc' = "aborted"
    /\ error' = "OSError"
    /\ UNCHANGED <<page_size, page, output_exists, dir, listed, idx, img, layout,
                   temp_exists, written, messages>>

\* line 41: os.listdir returns the entries
ListInputDir ==
    /\ pc = "listdir"
    /\ listed' = TRUE
    /\ pc' = "loop"
    /\ UNCHANGED <<page_size, page, error, output_exists, made_dirs, dir, idx, img, layout,
                   temp_exists, written, messages>>

\* line 41: os.listdir raises
ListdirFails ==
    /\ pc = "listdir"
    /\ listed' = TRUE
    /\ pc' = "aborted"
    /\ error' = "OSError"
    /\ UNCHANGED <<page_size, page, output_exists, made_dirs, dir, idx, img, layout,
                   temp_exists, written, messages>>

\* lines 41-43: the next entry passes the filter
EnterFile ==
    /\ pc = "loop"
    /\ idx < Len(dir)
    /\ IsSupported(dir[idx + 1])
    /\ idx' = idx + 1
    /\ pc' = "open"
    /\ UNCHANGED <<page_size, page, error, output_exists, made_dirs, dir, listed, img, layout,
                   temp_exists, written, messages>>

\* lines 41-43: the next entry does not pass the filter
SkipFile ==
    /\ pc = "loop"
    /\ idx < Len(dir)
    /\ ~ IsSupported(dir[idx + 1])
    /\ idx' = idx + 1
    /\ UNCHANGED <<pc, page_size, page, error, output_exists, made_dirs, dir, listed, img, layout,
                   temp_exists, written, messages>>

\* line 41: the listing is exhausted and the function returns
Finish ==
    /\ pc = "loop"
    /\ idx = Len(dir)
    /\ pc' = "done"
    /\ UNCHANGED <<page_size, page, error, output_exists, made_dirs, dir, listed, idx, img, layout,
                   temp_exists, written, messages>>

\* the mutant of HandleException that lets the exception leave the function
HandleExceptionReraise(reason) ==
    /\ pc' = "aborted"
    /\ error' = reason
    /\ img' = <<>>
    /\ layout' = <<>>
    /\ messages' = messages

\* lines 94-95: the except clause of the current file, then the next iteration
HandleException(reason) ==
    /\ pc' = "loop"
    /\ error' = error
    /\ img' = <<>>
    /\ layout' = <<>>
    /\ messages' = Append(messages, FailureMsg(dir[idx], reason))

\* lines 53-56: Image.open and convert succeed
OpenImage ==
    /\ pc = "open"
    /\ img' \in RunImages
    /\ pc' = "layout"
    /\ UNCHANGED <<page_size, page, error, output_exists, made_dirs, dir, listed, idx, layout,
                   temp_exists, written, messages>>

\* lines 53-56: Image.open or convert raises
OpenImageFails ==
    /\ pc = "open"
    /\ HandleException("decode")
    /\ UNCHANGED <<page_size, page, output_exists, made_dirs, dir, listed, idx,
                   temp_exists, written>>

\* lines 59-77
ComputeLayout ==
    /\ pc = "layout"
    /\ page[2] # 0
    /\ layout' = << Layout(page[1], page[2], img[1], img[2]) >>
    /\ pc' = "encode"
    /\ UNCHANGED <<page_size, page, error, output_exists, made_dirs, dir, listed, idx, img,
                   temp_exists, written, messages>>

\* line 66: pdf_page_height is 0 and the division raises ZeroDivisionError
ComputeLayoutFails ==
    /\ pc = "layout"
    /\ page[2] = 0
    /\ HandleException("zerodivision")
    /\ UNCHANGED <<page_size, page, output_exists, made_dirs, dir, listed, idx,
                   temp_exists, written>>

\* lines 80-81: img.save writes temp.jpg
SaveTemp ==
    /\ pc = "encode"
    /\ temp_exists' = TRUE
    /\ pc' = "newpdf"
    /\ UNCHANGED <<page_size, page, error, output_exists, made_dirs, dir, listed, idx, img,
                   layout, written, messages>>

\* line 81: img.save raises; the file it opened for writing may be left behind
SaveTempFails ==
    /\ pc = "encode"
    /\ temp_exists' \in {temp_exists, TRUE}
    /\ HandleException("encode")
    /\ UNCHANGED <<page_size, page, output_exists, made_dirs, dir, listed, idx, written>>

\* lines 84-85: FPDF(...) and add_page
NewPdf ==
    /\ pc = "newpdf"
    /\ pc' = "image"
    /\ UNCHANGED <<page_size, page, error, output_exists, made_dirs, dir, listed, idx, img,
                   layout, temp_exists, written, messages>>

\* lines 84-85: FPDF(...) or add_page raises
NewPdfFails ==
    /\ pc = "newpdf"
    /\ HandleException("page")
    /\ UNCHANGED <<page_size, page, output_exists, made_dirs, dir, listed, idx,
                   temp_exists, written>>

\* line 86
PlaceImage ==
    /\ pc = "image"
    /\ pc' = "output"
    /\ UNCHANGED <<page_size, page, error, output_exists, made_dirs, dir, listed, idx, img,
                   layout, temp_exists, written, messages>>

\* line 86: pdf.image raises
PlaceImageFails ==
    /\ pc = "image"
    /\ HandleException("image")
    /\ UNCHANGED <<page_size, page, output_exists, made_dirs, dir, listed, idx,
                   temp_exists, written>>

\* line 87: pdf.output writes output_path, replacing a file of that name
OutputPdf ==
    /\ pc = "output"
    /\ written' = Append(written, [src |-> dir[idx], path |-> OutputPath(dir[idx])])
    /\ pc' = "remove"
    /\ UNCHANGED <<page_size, page, error, output_exists, made_dirs, dir, listed, idx, img,
                   layout, temp_exists, messages>>

\* line 87: pdf.output raises
OutputPdfFails ==
    /\ pc = "output"
    /\ HandleException("output")
    /\ UNCHANGED <<page_size, page, output_exists, made_dirs, dir, listed, idx,
                   temp_exists, written>>

\* the mutant of RemoveFile that leaves the file in place
RemoveFileKeeps(exists) == exists

\* os.remove(path): the file is gone afterwards
RemoveFile(exists) == FALSE

\* line 90
RemoveTemp ==
    /\ pc = "remove"
    /\ temp_exists' = RemoveFile(temp_exists)
    /\ pc' = "report"
    /\ UNCHANGED <<page_size, page, error, output_exists, made_dirs, dir, listed, idx, img,
                   layout, written, messages>>

\* line 90: os.remove raises
RemoveTempFails ==
    /\ pc = "remove"
    /\ HandleException("remove")
    /\ UNCHANGED <<page_size, page, output_exists, made_dirs, dir, listed, idx,
                   temp_exists, written>>

\* line 92, then the next iteration
ReportSuccess ==
    /\ pc = "report"
    /\ messages' = Append(messages, SuccessMsg(dir[idx]))
    /\ img' = <<>>
    /\ layout' = <<>>
    /\ pc' = "loop"
    /\ UNCHANGED <<page_size, page, error, output_exists, made_dirs, dir, listed, idx,
                   temp_exists, written>>

Next ==
    \/ ResolvePageSize
    \/ EnsureOutputDir
    \/ MakedirsFails
    \/ ListInputDir
    \/ ListdirFails
    \/ EnterFile
    \/ SkipFile
    \/ Finish
    \/ OpenImage
    \/ OpenImageFails
    \/ ComputeLayout
    \/ ComputeLayoutFails
    \/ SaveTemp
    \/ SaveTempFails
    \/ NewPdf
    \/ NewPdfFails
    \/ PlaceImage
    \/ PlaceImageFails
    \/ OutputPdf
    \/ OutputPdfFails
    \/ RemoveTemp
    \/ RemoveTempFails
    \/ ReportSuccess

Spec == Init /\ [][Next]_vars

\* the resolver alone, over a wider range of page_size arguments
InitResolve ==
    /\ pc = "resolve"
    /\ page_size \in ResolveInputs
    /\ page = <<>>
    /\ error = "none"
    /\ output_exists = FALSE
    /\ made_dirs = FALSE
    /\ dir = <<>>
    /\ listed = FALSE
    /\ idx = 0
    /\ img = <<>>
    /\ layout = <<>>
    /\ temp_exists = FALSE
    /\ written = <<>>
    /\ messages = <<>>

NextResolve == ResolvePageSize

SpecResolve == InitResolve /\ [][NextResolve]_vars

\* the layout computation alone, over a wider range of page and pixel sizes
InitLayout ==
    /\ pc = "layout"
    /\ page_size \in { Tup(<<w, h>>) : w \in LayoutPageDims, h \in LayoutPageDims }
    /\ page = page_size.dims
    /\ error = "none"
    /\ output_exists = TRUE
    /\ made_dirs = FALSE
    /\ dir = <<a_png>>
    /\ listed = TRUE
    /\ idx = 1
    /\ img \in LayoutImageDims \X LayoutImageDims
    /\ layout = <<>>
    /\ temp_exists = FALSE
    /\ written = <<>>
    /\ messages = <<>>

NextLayout == ComputeLayout \/ ComputeLayoutFails

SpecLayout == InitLayout /\ [][NextLayout]_vars

-----------------------------------------------------------------------------
(* Properties *)

\* the presets as the documentation lists them
DocumentedPresets ==
    << [name |-> <<"a","3">>, size |-> <<297, 420>>],
       [name |-> <<"a","4">>, size |-> <<210, 297>>],
       [name |-> <<"a","5">>, size |-> <<148, 210>>],
       [name |-> <<"l","e","t","t","e","r">>, size |-> <<216, 279>>],
       [name |-> <<"l","e","g","a","l">>, size |-> <<216, 356>>] >>

IsPresetName(ps) ==
    /\ ps.kind = "str"
    /\ \E i \in 1..Len(DocumentedPresets) : Lower(ps.name) = DocumentedPresets[i].name

IsPositivePair(ps) ==
    /\ ps.kind = "seq"
    /\ Len(ps.dims) = 2
    /\ ps.dims[1] > 0
    /\ ps.dims[2] > 0

\* C1: once resolution has run on a preset name A3, A4, A5, letter or legal
\* in any casing, no error was raised and the page is the documented pair.
C1_PresetsResolve ==
    \A i \in 1..Len(DocumentedPresets) :
        ( /\ pc # "resolve"
          /\ page_size.kind = "str"
          /\ Lower(page_size.name) = DocumentedPresets[i].name )
        => /\ error = "none"
           /\ page = DocumentedPresets[i].size

\* C2: once resolution has run on a sequence, a pair of positive numbers is
\* the page unchanged, and any other sequence (0, 1 or 3 elements, or a pair
\* with a zero or negative value) raised ValueError.
C2_PairsResolve ==
    (pc # "resolve" /\ page_size.kind = "seq")
    => IF IsPositivePair(page_size)
       THEN error = "none" /\ page = page_size.dims
       ELSE error = "ValueError" /\ pc = "aborted" /\ page = <<>>

\* C3: once resolution has run on an unresolvable page size (unknown name,
\* wrong arity, non-positive values), the run has aborted with ValueError
\* and nothing was touched: no directory made, no listing, no temp raster,
\* no PDF, no message.
C3_UnresolvableAbortsUntouched ==
    (pc # "resolve" /\ ~ IsPresetName(page_size) /\ ~ IsPositivePair(page_size))
    => /\ pc = "aborted"
       /\ error = "ValueError"
       /\ ~ made_dirs
       /\ ~ listed
       /\ ~ temp_exists
       /\ written = <<>>
       /\ messages = <<>>

PositivePage == page # <<>> /\ page[1] > 0 /\ page[2] > 0

\* C4: for positive pixel and page dimensions the computed layout lies within
\* the page (0 <= x, 0 <= y, x + w <= page width, y + h <= page height),
\* keeps the pixel aspect ratio, has one dimension flush with the page and
\* is centered.
C4_LayoutInscribed ==
    (layout # <<>> /\ PositivePage)
    => LET l == layout[1]
           pageWidthPt == QMul(Num(page[1]), Factor)
           pageHeightPt == QMul(Num(page[2]), Factor)
       IN  /\ QGe(l.x_pos, Num(0))
           /\ QGe(l.y_pos, Num(0))
           /\ QGe(pageWidthPt, QAdd(l.x_pos, l.img_width))
           /\ QGe(pageHeightPt, QAdd(l.y_pos, l.img_height))
           /\ QDiv(l.img_width, l.img_height) = Norm(img[1], img[2], 0)
           /\ (l.img_width = pageWidthPt \/ l.img_height = pageHeightPt)
           /\ QAdd(QAdd(l.x_pos, l.img_width), l.x_pos) = pageWidthPt
           /\ QAdd(QAdd(l.y_pos, l.img_height), l.y_pos) = pageHeightPt

\* C4 witness: a height-bound layout with a positive horizontal margin
C4_Witness ==
    /\ layout # <<>>
    /\ PositivePage
    /\ layout[1].basis = "height"
    /\ QGt(layout[1].x_pos, Num(0))
    /\ QIsZero(layout[1].y_pos)

\* C9: the branch is chosen by a strict comparison of the page ratio with the
\* pixel ratio: greater means height-bound (h = page height, w = h * r),
\* otherwise width-bound (w = page width, h = w / r); equal ratios take the
\* width-bound branch and fill the page (x = 0, y = 0).  1000x2000 on 210x297
\* is height-bound with y = 0; 4000x1000 on 100x100 is width-bound with
\* h = page width / 4.
C9_StrictBranch ==
    (layout # <<>> /\ PositivePage)
    => LET l == layout[1]
           pageWidthPt == QMul(Num(page[1]), Factor)
           pageHeightPt == QMul(Num(page[2]), Factor)
           pageWider == page[1] * img[2] > img[1] * page[2]
           sameRatio == page[1] * img[2] = img[1] * page[2]
       IN  /\ pageWider =>
                /\ l.basis = "height"
                /\ l.img_height = pageHeightPt
                /\ l.img_width = Norm(page[2] * img[1], img[2], 1)
           /\ ~ pageWider =>
                /\ l.basis = "width"
                /\ l.img_width = pageWidthPt
                /\ l.img_height = Norm(page[1] * img[2], img[1], 1)
           /\ sameRatio =>
                /\ l.basis = "width"
                /\ l.img_width = pageWidthPt
                /\ l.img_height = pageHeightPt
                /\ QIsZero(l.x_pos)
                /\ QIsZero(l.y_pos)
           /\ (img = <<1000, 2000>> /\ page = <<210, 297>>) =>
                /\ l.basis = "height"
                /\ QIsZero(l.y_pos)
           /\ (img = <<4000, 1000>> /\ page = <<100, 100>>) =>
                /\ l.basis = "width"
                /\ l.img_height = QDiv(pageWidthPt, Num(4))

\* C9 witness: a layout computed for equal page and pixel ratios
C9_Witness ==
    /\ layout # <<>>
    /\ PositivePage
    /\ page[1] * img[2] = img[1] * page[2]
    /\ page[1] # page[2]

\* number of entries of dir whose iteration is over
Handled == IF pc \in {"loop", "done", "aborted"} THEN idx ELSE IF idx = 0 THEN 0 ELSE idx - 1

MessageFiles == [k \in 1..Len(messages) |-> messages[k].filename]

WrittenBy(f) == {j \in 1..Len(written) : written[j].src = f}

OutcomeSteps == {"open", "layout", "encode", "newpdf", "image", "output", "remove", "report"}

\* C5: a per-file error never aborts the run: no abort happens once the loop
\* has started, the messages are exactly one per matched file handled so far,
\* in listing order, every success has its PDF written, a file that failed
\* to decode has none, and the run ends normally only with every entry
\* handled.
C5_PerFileErrorsIsolated ==
    /\ pc = "aborted" => (idx = 0 /\ messages = <<>>)
    /\ MessageFiles = SelectSeq(SubSeq(dir, 1, Handled), IsSupported)
    /\ \A k \in 1..Len(messages) :
         /\ messages[k].ok => WrittenBy(messages[k].filename) # {}
         /\ messages[k].reason = "decode" => WrittenBy(messages[k].filename) = {}
    /\ pc = "done" => (idx = Len(dir) /\ error = "none")

\* C5 witness: the run ended after a decode failure followed by a success
C5_Witness ==
    /\ pc = "done"
    /\ Len(messages) = 2
    /\ messages[1].reason = "decode"
    /\ messages[2].ok

HasOutcome(f) == \E k \in 1..Len(messages) : messages[k].filename = f

\* the lowercased extension, as os.path.splitext gives it
LowerExt(f) == SplitExt(Lower(f))[2]

\* the lowercased name ends with one of the six suffixes
HasFormatSuffix(f) ==
    LET lowered == Lower(f)
    IN  \E k \in 0..Len(f) : SubSeq(lowered, k + 1, Len(f)) \in FormatSet

\* C6 as stated: an entry whose iteration is over was processed if and only
\* if its lowercased extension is one of the six formats.
C6_ProcessedIffExtension ==
    \A i \in 1..Handled :
        HasOutcome(dir[i]) <=> LowerExt(dir[i]) \in FormatSet

\* C6 amended: an entry is processed if and only if its lowercased name ends
\* with one of the six suffixes, which includes names such as .jpg whose
\* extension is empty; an entry that is not processed gets no message, no
\* conversion step and no PDF; photo.TXT is never processed, photo.JPG is.
C6_ProcessedIffSuffix ==
    /\ \A i \in 1..Handled :
         /\ HasOutcome(dir[i]) <=> HasFormatSuffix(dir[i])
         /\ ~ HasFormatSuffix(dir[i]) => WrittenBy(dir[i]) = {}
         /\ dir[i] = photo_TXT => ~ HasOutcome(dir[i])
         /\ dir[i] = photo_JPG => HasOutcome(dir[i])
    /\ pc \in OutcomeSteps => HasFormatSuffix(dir[idx])
    /\ \A i \in (Handled + 1)..Len(dir) :
         (i # idx \/ pc \notin OutcomeSteps) => (~ HasOutcome(dir[i]) /\ WrittenBy(dir[i]) = {})

\* C6 witness: the run ended having skipped photo.TXT and processed .jpg
C6_Witness ==
    /\ pc = "done"
    /\ \E i \in 1..Len(dir) : dir[i] = photo_TXT
    /\ HasOutcome(dot_jpg)
    /\ ~ HasOutcome(photo_TXT)

\* the stem of a name: the name without its extension
Stem(f) == SubSeq(f, 1, Len(f) - Len(SplitExt(f)[2]))

ExpectedPdfPath(f) == output_folder \o <<"/">> \o Stem(f) \o <<".","p","d","f">>

OnePdfFor(f) ==
    /\ Cardinality(WrittenBy(f)) = 1
    /\ \A j \in WrittenBy(f) : written[j].path = ExpectedPdfPath(f)

\* C7: whenever a success message is about to be or has been emitted for a
\* source file, exactly one PDF was written for it, at
\* <output folder>/<stem>.pdf, and the message names <stem>.pdf.
C7_SuccessHasOnePdf ==
    /\ pc = "report" => OnePdfFor(dir[idx])
    /\ \A k \in 1..Len(messages) :
         messages[k].ok =>
            /\ OnePdfFor(messages[k].filename)
            /\ messages[k].pdf_name = Stem(messages[k].filename) \o <<".","p","d","f">>

\* C7 witness: two success messages, one of them for photo.JPG
C7_Witness ==
    /\ Len(messages) = 2
    /\ messages[1].ok
    /\ messages[2].ok
    /\ \E k \in 1..2 : messages[k].filename = photo_JPG

AfterEncodeReasons == {"page", "image", "output", "remove"}

AtBoundary == pc \in {"loop", "done"} /\ listed

C8_RemovedOnSuccess ==
    /\ pc = "report" => ~ temp_exists
    /\ (pc \in {"loop", "open", "done"} /\ Len(messages) > 0 /\ messages[Len(messages)].ok)
         => ~ temp_exists

\* C8 as stated: temp.jpg does not exist where a success message is emitted
\* nor at the start of the next file after a success, and it exists at a file
\* boundary or at the end of the run only if the immediately preceding
\* processed file failed after its raster was encoded.
C8_TempOnlyAfterLastFileFailedLate ==
    /\ C8_RemovedOnSuccess
    /\ (AtBoundary /\ temp_exists) =>
         /\ Len(messages) > 0
         /\ ~ messages[Len(messages)].ok
         /\ messages[Len(messages)].reason \in AfterEncodeReasons

\* C8 amended: temp.jpg does not exist where a success message is emitted nor
\* at the start of the next file after a success, and it exists at a file
\* boundary or at the end of the run only if some processed file failed at or
\* after the raster-encoding step and no file has succeeded since.
C8_TempOnlyAfterSomeLateFailure ==
    /\ C8_RemovedOnSuccess
    /\ (AtBoundary /\ temp_exists) =>
         \E k \in 1..Len(messages) :
            /\ messages[k].reason \in AfterEncodeReasons \cup {"encode"}
            /\ \A j \in k..Len(messages) : ~ messages[j].ok

\* C8 witness: the run ended with temp.jpg left by the first file, the
\* second file having failed to decode
C8_Witness ==
    /\ pc = "done"
    /\ temp_exists
    /\ Len(messages) = 2
    /\ messages[1].reason = "output"
    /\ messages[2].reason = "decode"

SuccessFiles == {messages[k].filename : k \in {j \in 1..Len(messages) : messages[j].ok}}

SuccessPdfs == {written[j].path : j \in {i \in 1..Len(written) : written[i].src \in SuccessFiles}}

\* C10: at the end of the run the PDF files written by successful
\* conversions are as many as the success messages: no successful
\* conversion has replaced the PDF of another.
C10_NoOverwrite ==
    pc = "done" => Cardinality(SuccessPdfs) = Cardinality(SuccessFiles)

====
